---- MODULE Spec2Model ----
(***************************************************************************)
(* Model of the pCloud session / RPC layer (pcloud.js) and of the folder   *)
(* provisioning workflow (server.js) of the Worksection -> pCloud bridge.  *)
(*                                                                         *)
(* Node.js runs one task at a time; a task runs until it reaches an await  *)
(* on I/O (axios.get) or on a timer (setTimeout).  Each action below is    *)
(* one such run: it starts when a caller begins, a response arrives or a   *)
(* timer fires, and ends at the next I/O or timer await, or where the      *)
(* invocation returns or throws.                                           *)
(***************************************************************************)
EXTENDS Integers, Sequences, FiniteSets, TLC

\* JavaScript null / undefined / empty string (all falsy).
NULL == 0

\* Bounds of the model.
NumProcs == 2
MaxToken == 2
MaxEmails == 2
MaxEvents == 2
MaxUsers == 2
MaxValueLen == 2

\* Concurrent direct callers of the exported pcloudCall.
Callers == 1..NumProcs
\* The task that runs createProjectFolders for one webhook event.
Workflow == NumProcs + 1
Procs == Callers \cup {Workflow}
\* Auth tokens (non-empty strings).
Tokens == 1..MaxToken

\* Provider result codes: 0 success, 1000 login required, 2000 login failed,
\* 2005 stands for every other non-zero code.
Codes == {0, 1000, 2000, 2005}
LoginCodes == {0, 2000}
FolderIds == {11, 12}

\* What an awaited axios.get yields: a transport failure (rejection) or a body
\* with result, auth (login) and metadata.folderid (listfolder).
NoResponse == [kind |-> "none", result |-> 0, auth |-> NULL, folderid |-> NULL]
NetFail == [kind |-> "netfail", result |-> 0, auth |-> NULL, folderid |-> NULL]
Body(r, a, f) == [kind |-> "body", result |-> r, auth |-> a, folderid |-> f]
LoginResponses ==
    {NetFail} \cup {Body(r, a, NULL) : r \in LoginCodes, a \in {NULL} \cup Tokens}
MethodResponses(m) ==
    {NetFail} \cup
    {Body(r, NULL, f) : r \in Codes,
                        f \in IF m = "listfolder" THEN {NULL} \cup FolderIds ELSE {NULL}}

\* Project names and member emails handed to createProjectFolders.
ProjectNames == {"Alpha"}
MemberEmails == <<"a@x.com", "b@x.com", "c@x.com", "d@x.com">>
Emails == {MemberEmails[i] : i \in 1..Len(MemberEmails)}
\* The code never compares emails: the lists differ in length only.
EmailLists == {SubSeq(MemberEmails, 1, n) : n \in 0..MaxEmails}

VARIABLES
    env,          \* process.env: PCLOUD_AUTH, PCLOUD_USERNAME, PCLOUD_PASSWORD
    cachedAuth,   \* module variable cachedAuth
    isLoggingIn,  \* module variable isLoggingIn
    pc,           \* per invocation of pcloudCall: where it is suspended
    method,       \* pcloudCall argument
    params,       \* pcloudCall argument
    auth,         \* pcloudCall local auth
    firstTry,     \* pcloudCall local firstTry
    data,         \* the last response the invocation received
    err,          \* the kind of error the invocation threw
    nSent,        \* history: number of method requests the invocation issued
    relogins,     \* history: calls of loginAndGetAuth from the retry branch
    stage,        \* createProjectFolders: where it is
    projectName,  \* createProjectFolders argument
    emails,       \* createProjectFolders argument
    fi,           \* createProjectFolders: index of the folder being ensured
    ei,           \* createProjectFolders: index of the email being served
    created,      \* history: the paths whose ensureFolder returned
    folderId,     \* shareFolder local folderId
    calls,        \* history: the pcloudCall invocations of this run
    attempts,     \* history: the emails shareFolder was called for
    failedShares, \* history: the emails whose shareFolder threw
    wsEnv,        \* process.env: WS_BASE_URL, WS_ADMIN_TOKEN
    res,          \* the HTTP response sent to the webhook request
    events,       \* webhook handler local events
    evi,          \* webhook handler loop index i (from 1)
    hpc,          \* webhook handler: where the current event is
    pending,      \* how the handleWebhookEvent call of the current event settled
    wsProjectResponse,      \* what fetchWorksectionProject got for the current event
    outcomes,     \* history: how the earlier events of the delivery settled
    paramsObj,    \* fetchWorksectionProject local paramsObj
    apiKey,       \* fetchWorksectionProject local apiKey
    queryString,  \* fetchWorksectionProject local queryString
    hash,         \* fetchWorksectionProject local hash
    finalParams,  \* fetchWorksectionProject local finalParams
    signedBefore, \* history: the query signed by the call before this one
    folders,      \* the provider: the folder paths that exist
    createdBy,    \* the provider: the request that created the last folder
    ensureRun,    \* a caller of ensureFolder: which of its two calls is running
    firstEnsure,  \* history: how the first of the two calls settled
    accepted,     \* the provider: the token of the live session
    revoked       \* the provider: the token of the session that ended last

sessionVars == <<cachedAuth, isLoggingIn>>
callVars == <<pc, method, params, auth, firstTry, data, err, nSent, relogins>>
flowVars == <<stage, projectName, emails, fi, ei, created, folderId, calls, attempts,
             failedShares>>
signVars == <<paramsObj, apiKey, queryString, hash, finalParams, signedBefore>>
providerVars == <<accepted, revoked>>
storeVars == <<folders, createdBy, ensureRun, firstEnsure, providerVars>>
hookVars == <<wsEnv, res, events, evi, hpc, pending, wsProjectResponse, outcomes, signVars,
             storeVars>>
vars == <<env, sessionVars, callVars, flowVars, hookVars>>

STATIC_AUTH == env.PCLOUD_AUTH
PCLOUD_USERNAME == env.PCLOUD_USERNAME
PCLOUD_PASSWORD == env.PCLOUD_PASSWORD

\* With PCLOUD_AUTH set the code never reads the username and the password.
Envs == {e \in [PCLOUD_AUTH : {NULL, 1},
                PCLOUD_USERNAME : {NULL, 1},
                PCLOUD_PASSWORD : {NULL, 1}] :
            e.PCLOUD_AUTH # NULL => (e.PCLOUD_USERNAME = NULL /\ e.PCLOUD_PASSWORD = NULL)}

\* The webhook request has no response yet.
NotSent == [status |-> 0, body |-> ""]
\* Before fetchWorksectionProject has returned or thrown.
NotFetched == [kind |-> "none", status |-> "", name |-> "", users |-> <<>>]

\* No ensureFolder call has settled.
NotEnsured == [path |-> <<>>, ok |-> FALSE, folders |-> {}]

\* No query has been signed.
NoQuery == [paramsObj |-> <<>>, apiKey |-> <<>>, hash |-> <<>>]

\* An unset variable is the empty string.
WsEnvs == [WS_BASE_URL : {NULL, 1}, WS_ADMIN_TOKEN : {<<>>, <<"k">>}]

Init ==
    /\ env \in Envs
    /\ cachedAuth = env.PCLOUD_AUTH
    /\ isLoggingIn = FALSE
    /\ pc = [p \in Procs |-> "idle"]
    /\ method = [p \in Procs |-> "userinfo"]
    /\ params = [p \in Procs |-> <<>>]
    /\ auth = [p \in Procs |-> NULL]
    /\ firstTry = [p \in Procs |-> TRUE]
    /\ data = [p \in Procs |-> NoResponse]
    /\ err = [p \in Procs |-> "none"]
    /\ nSent = [p \in Procs |-> 0]
    /\ relogins = [p \in Procs |-> 0]
    /\ stage = "none"
    /\ projectName = "Alpha"
    /\ emails = <<>>
    /\ fi = 0
    /\ ei = 0
    /\ created = <<>>
    /\ folderId = NULL
    /\ calls = <<>>
    /\ attempts = <<>>
    /\ failedShares = <<>>
    /\ wsEnv = [WS_BASE_URL |-> 1, WS_ADMIN_TOKEN |-> <<"k">>]
    /\ res = NotSent
    /\ events = <<>>
    /\ evi = 0
    /\ hpc = "none"
    /\ pending = "none"
    /\ wsProjectResponse = NotFetched
    /\ outcomes = <<>>
    /\ paramsObj = <<>>
    /\ apiKey = <<>>
    /\ queryString = <<>>
    /\ hash = <<>>
    /\ finalParams = <<>>
    /\ signedBefore = NoQuery
    /\ folders = {}
    /\ createdBy = <<>>
    /\ ensureRun = "none"
    /\ firstEnsure = NotEnsured
    /\ accepted = NULL
    /\ revoked = NULL

----------------------------------------------------------------------------
(* pcloud.js: session and RPC wrapper *)

\* Mutant: only the username is checked.
MissingCredentials_UserOnly == PCLOUD_USERNAME = NULL

\* loginAndGetAuth: the credentials check.
MissingCredentials == PCLOUD_USERNAME = NULL \/ PCLOUD_PASSWORD = NULL

\* Mutant: a result-0 login response without a token is accepted.
LoginRejected_ResultOnly(d) == d.result # 0

\* loginAndGetAuth: the test of the login response.
LoginRejected(d) == d.result # 0 \/ d.auth = NULL

\* Mutant: 1000/2000 is an API error like any other; there is no re-login.
Outcome_NoRelogin(first, d) ==
    IF d.kind = "netfail" THEN "network"
    ELSE IF d.result = 0 THEN "return"
    ELSE "api"

\* Mutant: 1000/2000 leads to a re-login on every attempt.
Outcome_NoFirstTry(first, d) ==
    IF d.kind = "netfail" THEN "network"
    ELSE IF d.result = 0 THEN "return"
    ELSE IF d.result = 1000 \/ d.result = 2000 THEN "relogin"
    ELSE "api"

\* Mutant: every non-zero result of the first attempt leads to a re-login.
Outcome_AnyErrorRelogin(first, d) ==
    IF d.kind = "netfail" THEN "network"
    ELSE IF d.result = 0 THEN "return"
    ELSE IF first THEN "relogin"
    ELSE "api"

\* Mutant: a transport failure of the first attempt leads to a re-login.
Outcome_NetRetry(first, d) ==
    IF d.kind = "netfail" THEN (IF first THEN "relogin" ELSE "network")
    ELSE IF d.result = 0 THEN "return"
    ELSE IF first /\ (d.result = 1000 \/ d.result = 2000) THEN "relogin"
    ELSE "api"

\* pcloudCall: what it does with the answer to the method request.
Outcome(first, d) ==
    IF d.kind = "netfail" THEN "network"
    ELSE IF d.result = 0 THEN "return"
    ELSE IF first /\ (d.result = 1000 \/ d.result = 2000) THEN "relogin"
    ELSE "api"

\* Mutant: the cache is never used.
UseCache_Never == FALSE

\* getAuthToken: use the cache, or log in.
UseCache == cachedAuth # NULL

\* pcloudCall, top of the loop: axios.get(url, {...params, auth}).
IssueRequest(p, tok, n) ==
    /\ pc' = [pc EXCEPT ![p] = "methodReq"]
    /\ auth' = [auth EXCEPT ![p] = tok]
    /\ nSent' = [nSent EXCEPT ![p] = n + 1]
    /\ err' = [err EXCEPT ![p] = "none"]

\* The invocation rejects with an error of kind e; its locals are gone.
Throw(p, e, n) ==
    /\ pc' = [pc EXCEPT ![p] = "failed"]
    /\ err' = [err EXCEPT ![p] = e]
    /\ auth' = [auth EXCEPT ![p] = NULL]
    /\ nSent' = [nSent EXCEPT ![p] = n]

\* loginAndGetAuth after the guard: isLoggingIn = true; axios.get(userinfo).
LoginRequest(p, n) ==
    /\ isLoggingIn' = TRUE
    /\ pc' = [pc EXCEPT ![p] = "loginReq"]
    /\ err' = [err EXCEPT ![p] = "none"]
    /\ auth' = [auth EXCEPT ![p] = NULL]
    /\ nSent' = [nSent EXCEPT ![p] = n]

\* Mutant: the static token is not looked at.
loginAndGetAuth_NoStatic(p, n) ==
    IF MissingCredentials
    THEN /\ Throw(p, "config", n)
         /\ isLoggingIn' = isLoggingIn
    ELSE IF isLoggingIn
    THEN /\ pc' = [pc EXCEPT ![p] = "waitTimer"]
         /\ err' = [err EXCEPT ![p] = "none"]
         /\ auth' = [auth EXCEPT ![p] = NULL]
         /\ nSent' = [nSent EXCEPT ![p] = n]
         /\ isLoggingIn' = isLoggingIn
    ELSE LoginRequest(p, n)

\* loginAndGetAuth from its entry to its first await (or its return / throw).
\* It does not assign cachedAuth.
loginAndGetAuth(p, n) ==
    IF STATIC_AUTH # NULL
    THEN /\ IssueRequest(p, STATIC_AUTH, n)
         /\ isLoggingIn' = isLoggingIn
    ELSE IF MissingCredentials
    THEN /\ Throw(p, "config", n)
         /\ isLoggingIn' = isLoggingIn
    ELSE IF isLoggingIn
    THEN /\ pc' = [pc EXCEPT ![p] = "waitTimer"]
         /\ err' = [err EXCEPT ![p] = "none"]
         /\ auth' = [auth EXCEPT ![p] = NULL]
         /\ nSent' = [nSent EXCEPT ![p] = n]
         /\ isLoggingIn' = isLoggingIn
    ELSE LoginRequest(p, n)

\* getAuthToken, then the first request of pcloudCall.
getAuthToken(p) ==
    IF UseCache
    THEN /\ IssueRequest(p, cachedAuth, 0)
         /\ isLoggingIn' = isLoggingIn
    ELSE loginAndGetAuth(p, 0)

\* pcloudCall(method, params) is invoked and runs to its first await.
pcloudCall(p, m, a) ==
    /\ method' = [method EXCEPT ![p] = m]
    /\ params' = [params EXCEPT ![p] = a]
    /\ firstTry' = [firstTry EXCEPT ![p] = TRUE]
    /\ data' = [data EXCEPT ![p] = NoResponse]
    /\ relogins' = [relogins EXCEPT ![p] = 0]
    /\ getAuthToken(p)
    /\ UNCHANGED <<env, cachedAuth>>

\* A caller invokes pcloudCall('userinfo', {}) directly.
DirectCall(p) ==
    /\ p \in Callers
    /\ pc[p] \in {"idle", "done", "failed"}
    /\ pcloudCall(p, "userinfo", <<>>)
    /\ UNCHANGED <<flowVars, hookVars>>

\* The 500 ms timer of a login that found another login in progress fires.
TimerFires(p) ==
    /\ pc[p] = "waitTimer"
    /\ IF cachedAuth # NULL
       THEN /\ IssueRequest(p, cachedAuth, nSent[p])
            /\ isLoggingIn' = isLoggingIn
       ELSE LoginRequest(p, nSent[p])
    /\ UNCHANGED <<env, cachedAuth, method, params, firstTry, data, relogins, flowVars, hookVars>>

\* Mutant: the flag is reset only when the login succeeds (no finally).
LoginResponse_NoFinally(p, d) ==
    /\ pc[p] = "loginReq"
    /\ data' = [data EXCEPT ![p] = d]
    /\ IF d.kind = "netfail"
       THEN /\ Throw(p, "transport", nSent[p])
            /\ UNCHANGED <<cachedAuth, isLoggingIn>>
       ELSE IF LoginRejected(d)
       THEN /\ Throw(p, "login", nSent[p])
            /\ UNCHANGED <<cachedAuth, isLoggingIn>>
       ELSE /\ cachedAuth' = d.auth
            /\ isLoggingIn' = FALSE
            /\ IssueRequest(p, d.auth, nSent[p])
    /\ UNCHANGED <<env, method, params, firstTry, relogins, flowVars, hookVars>>

\* The login request (userinfo?getauth=1) is answered with d.
LoginResponse(p, d) ==
    /\ pc[p] = "loginReq"
    /\ data' = [data EXCEPT ![p] = d]
    /\ isLoggingIn' = FALSE
    /\ IF d.kind = "netfail"
       THEN /\ Throw(p, "transport", nSent[p])
            /\ cachedAuth' = cachedAuth
       ELSE IF LoginRejected(d)
       THEN /\ Throw(p, "login", nSent[p])
            /\ cachedAuth' = cachedAuth
       ELSE /\ cachedAuth' = d.auth
            /\ IssueRequest(p, d.auth, nSent[p])
    /\ UNCHANGED <<env, method, params, firstTry, relogins, flowVars, hookVars>>

\* The method request is answered with d.
MethodResponse(p, d) ==
    /\ pc[p] = "methodReq"
    /\ data' = [data EXCEPT ![p] = d]
    /\ LET o == Outcome(firstTry[p], d) IN
       IF o = "return"
       THEN /\ pc' = [pc EXCEPT ![p] = "done"]
            /\ auth' = [auth EXCEPT ![p] = NULL]
            /\ UNCHANGED <<cachedAuth, isLoggingIn, firstTry, err, nSent, relogins>>
       ELSE IF o = "relogin"
       THEN /\ firstTry' = [firstTry EXCEPT ![p] = FALSE]
            /\ cachedAuth' = NULL
            /\ relogins' = [relogins EXCEPT ![p] = @ + 1]
            /\ loginAndGetAuth(p, nSent[p])
       ELSE /\ Throw(p, o, nSent[p])
            /\ UNCHANGED <<cachedAuth, isLoggingIn, firstTry, relogins>>
    /\ UNCHANGED <<env, method, params, flowVars, hookVars>>

----------------------------------------------------------------------------
(* server.js: createProjectFolders *)

\* Paths are sequences of segments; dateStr is today's date.
dateStr == "today"
rootPath == <<"WorksectionProjects">>
projectPath(name) == Append(rootPath, name)
previewBasePath(name) == Append(projectPath(name), "Preview")
previewPath(name) == Append(previewBasePath(name), dateStr)
finalRenderPath(name) == Append(projectPath(name), "Final_render")

\* Mutant: the dated preview folder is ensured before its parent.
FolderSequence_PreviewFirst(name) ==
    <<rootPath, projectPath(name), previewPath(name), previewBasePath(name),
      finalRenderPath(name)>>

\* The ensureFolder calls of createProjectFolders, in program order.
FolderSequence(name) ==
    <<rootPath, projectPath(name), previewBasePath(name), previewPath(name),
      finalRenderPath(name)>>

\* ensureFolder(path).
\* Mutant: the folder is created without the test for its existence.
ensureFolder_Create(p, path) == pcloudCall(p, "createfolder", [path |-> path])

\* ensureFolder(path): pcloudCall('createfolderifnotexists', { path }).
ensureFolder(p, path) == pcloudCall(p, "createfolderifnotexists", [path |-> path])

\* shareFolder(path, mail, permissions), first half: the folderid lookup.
shareFolder(p, path) == pcloudCall(p, "listfolder", [path |-> path])

\* shareFolder, second half: sharefolder by folderid.
shareById(p, id, mail, permissions) ==
    pcloudCall(p, "sharefolder", [folderid |-> id, mail |-> mail, permissions |-> permissions])

\* The call log entry of pcloudCall(m, a).
Call(m, a) == [method |-> m, params |-> a]

\* createProjectFolders(projectName, emails) is called and runs to its first await.
createProjectFolders(name, ems) ==
    /\ stage \in {"none", "finished", "aborted"}
    /\ stage' = "folders"
    /\ projectName' = name
    /\ emails' = ems
    /\ fi' = 1
    /\ ei' = 0
    /\ created' = <<>>
    /\ folderId' = NULL
    /\ calls' = <<Call("createfolderifnotexists", [path |-> FolderSequence(name)[1]])>>
    /\ attempts' = <<>>
    /\ failedShares' = <<>>
    /\ ensureFolder(Workflow, FolderSequence(name)[1])

\* The share loop moves on to email number i, or the function returns.
NextEmail(i) ==
    /\ folderId' = NULL
    /\ IF i <= Len(emails)
       THEN /\ stage' = "lookup"
            /\ ei' = i
            /\ attempts' = Append(attempts, emails[i])
            /\ calls' = Append(calls, Call("listfolder", [path |-> projectPath(projectName)]))
            /\ shareFolder(Workflow, projectPath(projectName))
       ELSE /\ stage' = "finished"
            /\ ei' = i
            /\ UNCHANGED <<env, sessionVars, callVars, attempts, calls>>

\* Mutant: an awaited call that threw is taken as having returned.
Rejected_Never(p) == FALSE

\* await of a call that threw: the exception leaves createProjectFolders.
Rejected(p) == pc[p] = "failed"

\* An awaited ensureFolder has settled: createProjectFolders continues.
FolderSettled ==
    /\ stage = "folders"
    /\ pc[Workflow] \in {"done", "failed"}
    /\ UNCHANGED <<projectName, emails, failedShares>>
    /\ IF Rejected(Workflow)
       THEN /\ stage' = "aborted"
            /\ UNCHANGED <<fi, ei, created, folderId, calls, attempts, env, sessionVars,
                           callVars>>
       ELSE /\ created' = Append(created, FolderSequence(projectName)[fi])
            /\ IF fi < Len(FolderSequence(projectName))
               THEN /\ fi' = fi + 1
                    /\ calls' = Append(calls, Call("createfolderifnotexists",
                                       [path |-> FolderSequence(projectName)[fi + 1]]))
                    /\ ensureFolder(Workflow, FolderSequence(projectName)[fi + 1])
                    /\ UNCHANGED <<stage, ei, folderId, attempts>>
               ELSE /\ fi' = fi
                    /\ NextEmail(1)

\* Mutant: an error of shareFolder leaves the loop.
ShareErrorPolicy_Throw == "throw"

\* createProjectFolders: the try/catch around each shareFolder call.
ShareErrorPolicy == "continue"

\* Mutant: any listfolder answer is taken to hold a folder.
HasFolderId_Always(d) == TRUE

\* shareFolder: metadata && metadata.folderid
HasFolderId(d) == d.folderid # NULL

\* An awaited pcloudCall of shareFolder has settled: the share loop continues.
ShareSettled ==
    /\ stage \in {"lookup", "share"}
    /\ pc[Workflow] \in {"done", "failed"}
    /\ UNCHANGED <<projectName, emails, fi, created>>
    /\ IF stage = "lookup" /\ pc[Workflow] = "done" /\ HasFolderId(data[Workflow])
       THEN /\ stage' = "share"
            /\ ei' = ei
            /\ folderId' = data[Workflow].folderid
            /\ calls' = Append(calls, Call("sharefolder",
                   [folderid |-> data[Workflow].folderid, mail |-> emails[ei],
                    permissions |-> 7]))
            /\ shareById(Workflow, data[Workflow].folderid, emails[ei], 7)
            /\ UNCHANGED <<attempts, failedShares>>
       ELSE IF stage = "share" /\ pc[Workflow] = "done"
       THEN /\ NextEmail(ei + 1)
            /\ UNCHANGED failedShares
       ELSE /\ failedShares' = Append(failedShares, emails[ei])
            /\ IF ShareErrorPolicy = "continue"
               THEN NextEmail(ei + 1)
               ELSE /\ stage' = "aborted"
                    /\ UNCHANGED <<ei, folderId, calls, attempts, env, sessionVars, callVars>>

----------------------------------------------------------------------------
\* Concurrent direct callers of pcloudCall.
Next ==
    \E p \in Callers :
        \/ DirectCall(p)
        \/ TimerFires(p)
        \/ \E d \in LoginResponses : LoginResponse(p, d)
        \/ \E d \in MethodResponses(method[p]) : MethodResponse(p, d)

Spec == Init /\ [][Next]_vars

\* One createProjectFolders run, concurrent with one direct caller.
FlowProcs == {Workflow, 1}

NextFlow ==
    \/ \E name \in ProjectNames, ems \in EmailLists :
          createProjectFolders(name, ems) /\ UNCHANGED hookVars
    \/ FolderSettled /\ UNCHANGED hookVars
    \/ ShareSettled /\ UNCHANGED hookVars
    \/ DirectCall(1)
    \/ \E p \in FlowProcs :
        \/ TimerFires(p)
        \/ \E d \in LoginResponses : LoginResponse(p, d)
        \/ \E d \in MethodResponses(method[p]) : MethodResponse(p, d)

SpecFlow == Init /\ [][NextFlow]_vars

----------------------------------------------------------------------------
(* server.js, test-ws.js: the signed query of the tracker API *)

\* A string is the sequence of its characters.
ActionName == <<"a", "c", "t", "i", "o", "n">>
IdProjectName == <<"i", "d", "_", "p", "r", "o", "j", "e", "c", "t">>
ExtraName == <<"e", "x", "t", "r", "a">>
HashName == <<"h", "a", "s", "h">>
GetProject == <<"g", "e", "t", "_", "p", "r", "o", "j", "e", "c", "t">>
GetProjects == <<"g", "e", "t", "_", "p", "r", "o", "j", "e", "c", "t", "s">>
Users == <<"u", "s", "e", "r", "s">>

\* One property of a parameter object; an object is the sequence of its
\* properties in insertion order (its names are not array indices).
Pair(n, v) == [name |-> n, value |-> v]

\* Project ids as the webhook gives them, turned into strings.
IdChars == {"4", "&"}
ProjectIds == UNION {[1..n -> IdChars] : n \in 1..MaxValueLen}
Secrets == {<<"k">>, <<"4", "k">>}

\* fetchWorksectionProject: paramsObj.
FetchParams(projectId) ==
    <<Pair(ActionName, GetProject), Pair(IdProjectName, projectId), Pair(ExtraName, Users)>>

\* test-ws.js main: paramsObj.
TestParams == <<Pair(ActionName, GetProjects), Pair(ExtraName, Users)>>

\* The objects made of properties of po, in every insertion order.
Orderings(po) ==
    UNION {{[i \in 1..n |-> po[f[i]]] :
               f \in {g \in [1..n -> 1..Len(po)] :
                         \A i, j \in 1..n : i # j => g[i] # g[j]}} :
           n \in 0..Len(po)}
ParamObjects == {TestParams} \cup UNION {Orderings(FetchParams(id)) : id \in ProjectIds}

\* URLSearchParams.toString(): application/x-www-form-urlencoded bytes.
EncodeChar(c) ==
    CASE c = " " -> <<"+">>
      [] c = "&" -> <<"%", "2", "6">>
      [] c = "=" -> <<"%", "3", "D">>
      [] c = "+" -> <<"%", "2", "B">>
      [] c = "%" -> <<"%", "2", "5">>
      [] OTHER -> <<c>>

RECURSIVE EncodeString(_)
EncodeString(str) ==
    IF str = <<>> THEN <<>> ELSE EncodeChar(Head(str)) \o EncodeString(Tail(str))

\* The serialisation of a list of name/value pairs: name=value joined by &.
RECURSIVE Serialize(_)
Serialize(po) ==
    IF po = <<>> THEN <<>>
    ELSE LET one == EncodeString(po[1].name) \o <<"=">> \o EncodeString(po[1].value)
         IN  IF Len(po) = 1 THEN one
             ELSE one \o <<"&">> \o Serialize(Tail(po))

\* Mutant: the properties are serialised in one fixed order, whatever the
\* insertion order.
URLSearchParams_Canonical(po) ==
    Serialize(CHOOSE q \in Orderings(po) : Len(q) = Len(po))

\* new URLSearchParams(paramsObj).toString()
URLSearchParams(po) == Serialize(po)

\* crypto.createHash('md5').update(str).digest('hex'): the digest of str.
\* Two digests are equal when their inputs are: MD5 collisions are left out.
md5(str) == [digest |-> str]

\* Mutant: the hash comes first in the parameters sent.
Spread_HashFirst(po, h) == <<Pair(HashName, h)>> \o po

\* { ...paramsObj, hash }
Spread(po, h) ==
    IF \E i \in 1..Len(po) : po[i].name = HashName
    THEN [i \in 1..Len(po) |-> IF po[i].name = HashName THEN Pair(HashName, h) ELSE po[i]]
    ELSE Append(po, Pair(HashName, h))

\* Decimal digits of a number: String(projectId).
Digits == <<"0", "1", "2", "3", "4", "5", "6", "7", "8", "9">>
RECURSIVE NumberToString(_)
NumberToString(n) ==
    IF n < 10 THEN <<Digits[n + 1]>>
    ELSE NumberToString(n \div 10) \o <<Digits[(n % 10) + 1]>>

\* fetchWorksectionProject from paramsObj to finalParams.
Sign(po, key) ==
    /\ paramsObj' = po
    /\ apiKey' = key
    /\ queryString' = URLSearchParams(po)
    /\ hash' = md5(URLSearchParams(po) \o key)
    /\ finalParams' = Spread(po, md5(URLSearchParams(po) \o key))

----------------------------------------------------------------------------
(* server.js: the webhook endpoint, handleWebhookEvent, fetchWorksectionProject *)

\* Webhook events {action, object: {type, id}, new: {title}}.
ProjectPosted == [action |-> "post", type |-> "project", id |-> 42, title |-> "Beta"]
TaskUpdated == [action |-> "update", type |-> "task", id |-> 7, title |-> ""]
TaskPosted == [action |-> "post", type |-> "task", id |-> 7, title |-> ""]
ProjectPostedUntitled == [action |-> "post", type |-> "project", id |-> 42, title |-> ""]
EventKinds == {ProjectPosted, ProjectPostedUntitled, TaskUpdated, TaskPosted}
Deliveries == UNION {[1..n -> EventKinds] : n \in 0..MaxEvents}

\* The users of a tracker record, by email ("" for a user without one).
UserRecords == <<"a@x.com", "", "", "">>
UserRecordsNoFirst == <<"", "b@x.com", "", "">>
UserRecordsAll == <<"a@x.com", "b@x.com", "", "">>
UserLists ==
    {SubSeq(UserRecords, 1, n) : n \in 0..MaxUsers} \cup
    {SubSeq(UserRecordsNoFirst, 1, n) : n \in 0..MaxUsers} \cup
    {SubSeq(UserRecordsAll, 1, n) : n \in 0..MaxUsers}

\* What the tracker request yields: a transport failure or {status, data}.
TrackerFail == [kind |-> "netfail", status |-> "", name |-> "", users |-> <<>>]
TrackerBody(st, n, us) == [kind |-> "body", status |-> st, name |-> n, users |-> us]
TrackerResponses ==
    {TrackerFail, TrackerBody("error", "", <<>>)} \cup
    {TrackerBody("ok", "Alpha", us) : us \in UserLists} \cup
    {TrackerBody("ok", "", <<>>)}

\* Mutant: nothing is sent when the request arrives.
Acknowledge_Later == NotSent

\* res.status(200).json({ status: 'OK' })
Acknowledge == [status |-> 200, body |-> "OK"]

\* Mutant: the object type is not looked at.
IsProjectCreation_AnyType(ev) == ev.action = "post"

\* handleWebhookEvent: the event filter.
IsProjectCreation(ev) == ev.action = "post" /\ ev.type = "project"

\* fetchWorksectionProject: the configuration check.
TrackerConfigMissing == wsEnv.WS_BASE_URL = NULL \/ wsEnv.WS_ADMIN_TOKEN = <<>>

\* Mutant: the status of the response is not looked at.
TrackerRejected_Never(d) == FALSE

\* fetchWorksectionProject: the test of the response envelope.
TrackerRejected(d) == d.status # "ok"

\* fetchWorksectionProject returned the tracker's record.
Fetched == wsProjectResponse.kind = "body" /\ ~TrackerRejected(wsProjectResponse)

\* Mutant: the title of the webhook is preferred to the name of the record.
ProjectNameOf_TitleFirst(d, ev) ==
    IF ev.title # "" THEN ev.title
    ELSE IF d.name # "" THEN d.name
    ELSE "project_" \o ToString(ev.id)

\* handleWebhookEvent: projectData.name || projectTitleFromWebhook || `project_${projectId}`
ProjectNameOf(d, ev) ==
    IF d.name # "" THEN d.name
    ELSE IF ev.title # "" THEN ev.title
    ELSE "project_" \o ToString(ev.id)

\* Mutant: users without an email are kept.
EmailsOf_Unfiltered(d) == d.users

\* handleWebhookEvent: users.map((u) => u.email).filter((e) => !!e)
EmailsOf(d) == SelectSeq(d.users, LAMBDA e : e # "")

\* The webhook loop: i++.
NextIndex(i) == i + 1

\* Nothing of an earlier event is left: no createProjectFolders run, no
\* pcloudCall frame of the workflow.
ForgetEvent ==
    /\ stage' = "none"
    /\ projectName' = "Alpha"
    /\ emails' = <<>>
    /\ fi' = 0
    /\ ei' = 0
    /\ created' = <<>>
    /\ folderId' = NULL
    /\ calls' = <<>>
    /\ attempts' = <<>>
    /\ failedShares' = <<>>
    /\ pc' = [pc EXCEPT ![Workflow] = "idle"]
    /\ method' = [method EXCEPT ![Workflow] = "userinfo"]
    /\ params' = [params EXCEPT ![Workflow] = <<>>]
    /\ auth' = [auth EXCEPT ![Workflow] = NULL]
    /\ firstTry' = [firstTry EXCEPT ![Workflow] = TRUE]
    /\ data' = [data EXCEPT ![Workflow] = NoResponse]
    /\ err' = [err EXCEPT ![Workflow] = "none"]
    /\ nSent' = [nSent EXCEPT ![Workflow] = 0]
    /\ relogins' = [relogins EXCEPT ![Workflow] = 0]

\* The loop reaches index i: handleWebhookEvent(events[i]) runs to its first
\* await, or the loop ends.
StartEvent(evs, i) ==
    /\ ForgetEvent
    /\ wsProjectResponse' = NotFetched
    /\ signedBefore' = signedBefore
    /\ IF i > Len(evs)
       THEN /\ hpc' = "completed"
            /\ pending' = "none"
            /\ UNCHANGED <<paramsObj, apiKey, queryString, hash, finalParams>>
       ELSE IF ~IsProjectCreation(evs[i])
       THEN /\ hpc' = "settled"
            /\ pending' = "skipped"
            /\ UNCHANGED <<paramsObj, apiKey, queryString, hash, finalParams>>
       ELSE IF TrackerConfigMissing
       THEN /\ hpc' = "settled"
            /\ pending' = "failed"
            /\ UNCHANGED <<paramsObj, apiKey, queryString, hash, finalParams>>
       ELSE /\ hpc' = "fetchReq"
            /\ pending' = "none"
            /\ Sign(FetchParams(NumberToString(evs[i].id)), wsEnv.WS_ADMIN_TOKEN)

\* POST /ws-pcloud-hook arrives: the response is sent, the request is
\* authorized or not, and the loop starts.
Deliver(evs, authorized) ==
    /\ hpc \in {"none", "completed", "unauthorized"}
    /\ res' = Acknowledge
    /\ outcomes' = <<>>
    /\ IF ~authorized
       THEN /\ hpc' = "unauthorized"
            /\ events' = <<>>
            /\ evi' = 0
            /\ pending' = "none"
            /\ wsProjectResponse' = NotFetched
            /\ ForgetEvent
            /\ UNCHANGED signVars
       ELSE /\ events' = evs
            /\ evi' = 1
            /\ StartEvent(evs, 1)
    /\ UNCHANGED <<env, wsEnv, sessionVars, storeVars>>

\* The tracker request (get_project) is answered with d.
FetchResponse(d) ==
    /\ hpc = "fetchReq"
    /\ IF d.kind = "netfail" \/ TrackerRejected(d)
       THEN /\ hpc' = "settled"
            /\ pending' = "failed"
            /\ wsProjectResponse' = d
            /\ UNCHANGED <<env, sessionVars, callVars, flowVars>>
       ELSE /\ hpc' = "folders"
            /\ pending' = "none"
            /\ wsProjectResponse' = d
            /\ createProjectFolders(ProjectNameOf(d, events[evi]), EmailsOf(d))
    /\ UNCHANGED <<wsEnv, res, events, evi, outcomes, signVars, storeVars>>

\* Mutant: the loop does not wait for handleWebhookEvent.
Settled_NoAwait == hpc \in {"settled", "fetchReq", "folders"}

\* await handleWebhookEvent(ev) resumes: the call has returned or thrown.
Settled ==
    \/ hpc = "settled"
    \/ hpc = "folders" /\ stage \in {"finished", "aborted"}

\* How handleWebhookEvent(events[evi]) has settled.
EventOutcome ==
    IF hpc = "settled" THEN pending
    ELSE IF stage = "finished" THEN "ok" ELSE "failed"

\* Mutant: what handleWebhookEvent throws is not caught; the handler ends.
CatchEvent_Rethrow(o, i, n) == IF o = "failed" THEN n + 1 ELSE NextIndex(i)

\* try { await handleWebhookEvent(ev) } catch (err) { logError }: the index
\* the loop goes on with after event i of n has settled with outcome o.
CatchEvent(o, i, n) == NextIndex(i)

\* The awaited handleWebhookEvent has settled: the loop catches what it
\* threw and goes on.
EventSettled ==
    /\ Settled
    /\ outcomes' = Append(outcomes, EventOutcome)
    /\ evi' = CatchEvent(EventOutcome, evi, Len(events))
    /\ StartEvent(events, CatchEvent(EventOutcome, evi, Len(events)))
    /\ UNCHANGED <<env, wsEnv, sessionVars, res, events, storeVars>>

InitHook ==
    /\ env \in Envs
    /\ cachedAuth = env.PCLOUD_AUTH
    /\ isLoggingIn = FALSE
    /\ pc = [p \in Procs |-> "idle"]
    /\ method = [p \in Procs |-> "userinfo"]
    /\ params = [p \in Procs |-> <<>>]
    /\ auth = [p \in Procs |-> NULL]
    /\ firstTry = [p \in Procs |-> TRUE]
    /\ data = [p \in Procs |-> NoResponse]
    /\ err = [p \in Procs |-> "none"]
    /\ nSent = [p \in Procs |-> 0]
    /\ relogins = [p \in Procs |-> 0]
    /\ stage = "none"
    /\ projectName = "Alpha"
    /\ emails = <<>>
    /\ fi = 0
    /\ ei = 0
    /\ created = <<>>
    /\ folderId = NULL
    /\ calls = <<>>
    /\ attempts = <<>>
    /\ failedShares = <<>>
    /\ wsEnv \in WsEnvs
    /\ res = NotSent
    /\ events = <<>>
    /\ evi = 0
    /\ hpc = "none"
    /\ pending = "none"
    /\ wsProjectResponse = NotFetched
    /\ outcomes = <<>>
    /\ paramsObj = <<>>
    /\ apiKey = <<>>
    /\ queryString = <<>>
    /\ hash = <<>>
    /\ finalParams = <<>>
    /\ signedBefore = NoQuery
    /\ folders = {}
    /\ createdBy = <<>>
    /\ ensureRun = "none"
    /\ firstEnsure = NotEnsured
    /\ accepted = NULL
    /\ revoked = NULL

\* The code never compares tokens: in one delivery, whose calls are
\* sequential, the logins that succeed all yield the same token.
HookLoginResponses == {d \in LoginResponses : d.auth \in {NULL, 1}}

\* Results 1000 and 2000 take the same branch of pcloudCall and folder ids
\* are only passed on: one of each is answered in a delivery.
HookMethodResponses(m) ==
    {d \in MethodResponses(m) : d.result # 1000 /\ d.folderid \in {NULL, 11}}

\* One webhook delivery at a time: its remote calls are sequential, so a
\* login never finds another login in progress.
NextHook ==
    \/ \E evs \in Deliveries, authorized \in BOOLEAN : Deliver(evs, authorized)
    \/ \E d \in TrackerResponses : FetchResponse(d)
    \/ EventSettled
    \/ FolderSettled /\ hpc = "folders" /\ UNCHANGED hookVars
    \/ ShareSettled /\ hpc = "folders" /\ UNCHANGED hookVars
    \/ \E d \in HookLoginResponses : LoginResponse(Workflow, d)
    \/ \E d \in HookMethodResponses(method[Workflow]) : MethodResponse(Workflow, d)

SpecHook == InitHook /\ [][NextHook]_vars

\* Every remote call is answered in the end, and a settled promise resumes
\* the code that awaits it.
SpecHookLive ==
    /\ InitHook
    /\ [][NextHook]_vars
    /\ WF_vars(\E d \in TrackerResponses : FetchResponse(d))
    /\ WF_vars(EventSettled)
    /\ WF_vars(FolderSettled /\ hpc = "folders" /\ UNCHANGED hookVars)
    /\ WF_vars(ShareSettled /\ hpc = "folders" /\ UNCHANGED hookVars)
    /\ WF_vars(\E d \in HookLoginResponses : LoginResponse(Workflow, d))
    /\ WF_vars(\E d \in HookMethodResponses(method[Workflow]) : MethodResponse(Workflow, d))

----------------------------------------------------------------------------
(* The signed query on its own: two calls in a row *)

\* A call builds and signs its query: paramsObj, queryString, hash,
\* finalParams. Two calls in a row are followed.
SignQuery(po, key) ==
    /\ signedBefore = NoQuery
    /\ signedBefore' = [paramsObj |-> paramsObj, apiKey |-> apiKey, hash |-> hash]
    /\ Sign(po, key)
    /\ UNCHANGED <<env, sessionVars, callVars, flowVars, wsEnv, res, events, evi, hpc,
                   pending, wsProjectResponse, outcomes, storeVars>>

NextHash == \E po \in ParamObjects, key \in Secrets : SignQuery(po, key)

InitHash ==
    /\ Init
    /\ env = [PCLOUD_AUTH |-> NULL, PCLOUD_USERNAME |-> 1, PCLOUD_PASSWORD |-> 1]

SpecHash == InitHash /\ [][NextHash]_vars

----------------------------------------------------------------------------
(* ensureFolder called twice on one path, with a provider that keeps folders *)

StorePaths == {rootPath, projectPath("Alpha")}

\* The provider carries out a createfolder(ifnotexists) request it received.
ProviderCreates ==
    /\ pc[Workflow] = "methodReq"
    /\ method[Workflow] \in {"createfolderifnotexists", "createfolder"}
    /\ params[Workflow].path \notin folders
    /\ folders' = folders \cup {params[Workflow].path}
    /\ createdBy' = <<ensureRun, nSent[Workflow]>>
    /\ UNCHANGED <<env, sessionVars, callVars, flowVars, wsEnv, res, events, evi, hpc,
                   pending, wsProjectResponse, outcomes, signVars, ensureRun, firstEnsure,
                   providerVars>>

\* What the provider answers to a request for a folder path: success when
\* the request created the folder; on a path that existed before,
\* createfolderifnotexists is a success and createfolder an error; a path
\* that does not exist was not created, for whatever reason.
ProviderAnswers(m, a) ==
    IF a.path \in folders
    THEN (IF m = "createfolderifnotexists" \/ createdBy = <<ensureRun, nSent[Workflow]>>
          THEN {Body(0, NULL, NULL)}
          ELSE {Body(2005, NULL, NULL)})
    ELSE MethodResponses(m) \ {Body(0, NULL, NULL)}

\* The folders that exist at the provider before the first call.
Preexisting(fs) ==
    /\ ensureRun = "none"
    /\ folders = {}
    /\ fs # {}
    /\ folders' = fs
    /\ createdBy' = createdBy
    /\ UNCHANGED <<env, sessionVars, callVars, flowVars, wsEnv, res, events, evi, hpc,
                   pending, wsProjectResponse, outcomes, signVars, ensureRun, firstEnsure,
                   providerVars>>

\* A caller invokes ensureFolder(path) for the first time.
EnsureFirst(path) ==
    /\ ensureRun = "none"
    /\ ensureRun' = "first"
    /\ ensureFolder(Workflow, path)
    /\ UNCHANGED <<flowVars, wsEnv, res, events, evi, hpc, pending, wsProjectResponse,
                   outcomes, signVars, folders, createdBy, firstEnsure, providerVars>>

\* The first call has settled: the caller invokes ensureFolder on the same
\* path again.
EnsureAgain ==
    /\ ensureRun = "first"
    /\ pc[Workflow] \in {"done", "failed"}
    /\ ensureRun' = "second"
    /\ firstEnsure' = [path |-> params[Workflow].path, ok |-> pc[Workflow] = "done",
                       folders |-> folders]
    /\ ensureFolder(Workflow, params[Workflow].path)
    /\ UNCHANGED <<flowVars, wsEnv, res, events, evi, hpc, pending, wsProjectResponse,
                   outcomes, signVars, folders, createdBy, providerVars>>

InitStore ==
    /\ InitHook
    /\ wsEnv = [WS_BASE_URL |-> 1, WS_ADMIN_TOKEN |-> <<"k">>]

NextStore ==
    \/ \E fs \in SUBSET StorePaths : Preexisting(fs)
    \/ \E path \in StorePaths : EnsureFirst(path)
    \/ EnsureAgain
    \/ ProviderCreates
    \/ \E d \in LoginResponses : LoginResponse(Workflow, d)
    \/ /\ pc[Workflow] = "methodReq"
       /\ \E d \in ProviderAnswers(method[Workflow], params[Workflow]) :
              MethodResponse(Workflow, d)

SpecStore == InitStore /\ [][NextStore]_vars

----------------------------------------------------------------------------
(* pcloudCall with a provider that keeps sessions *)

StillVars == <<flowVars, wsEnv, res, events, evi, hpc, pending, wsProjectResponse, outcomes,
               signVars, folders, createdBy, ensureRun, firstEnsure>>

InCall(p) == pc[p] \in {"waitTimer", "loginReq", "methodReq"}

\* The provider answers the login request in flight by opening a session
\* with a token that is not the one of the session that ended last.
ProviderIssues(t) ==
    /\ \E p \in Callers : pc[p] = "loginReq"
    /\ accepted = NULL
    /\ t # revoked
    /\ accepted' = t
    /\ revoked' = revoked
    /\ UNCHANGED <<env, sessionVars, callVars, StillVars>>

\* The session ends at the provider while no call is running.
SessionExpires ==
    /\ \A p \in Callers : ~InCall(p)
    /\ accepted # NULL
    /\ revoked' = accepted
    /\ accepted' = NULL
    /\ UNCHANGED <<env, sessionVars, callVars, StillVars>>

\* The login answer: the token of the session just opened.
SessionLoginAnswers == IF accepted = NULL THEN {} ELSE {Body(0, accepted, NULL)}

\* The method answer: success with the token of the live session, login
\* required (1000) or login failed (2000) with any other token.
SessionMethodAnswers(tok) ==
    IF tok = accepted THEN {Body(0, NULL, NULL)}
    ELSE {Body(1000, NULL, NULL), Body(2000, NULL, NULL)}

InitRecover ==
    /\ Init
    /\ env = [PCLOUD_AUTH |-> NULL, PCLOUD_USERNAME |-> 1, PCLOUD_PASSWORD |-> 1]

\* One call site after the other invokes pcloudCall.
CallInTurn(p) ==
    /\ \A q \in Callers : ~InCall(q)
    /\ DirectCall(p)

LoginAnswer == \E p \in Callers : \E d \in SessionLoginAnswers : LoginResponse(p, d)
MethodAnswer ==
    \E p \in Callers :
        /\ pc[p] = "methodReq"
        /\ \E d \in SessionMethodAnswers(auth[p]) : MethodResponse(p, d)

NextRecover ==
    \/ \E p \in Callers : CallInTurn(p)
    \/ \E t \in Tokens : ProviderIssues(t)
    \/ SessionExpires
    \/ LoginAnswer
    \/ MethodAnswer

\* Every request is answered in the end.
SpecRecover ==
    /\ InitRecover
    /\ [][NextRecover]_vars
    /\ WF_vars(\E t \in Tokens : ProviderIssues(t))
    /\ WF_vars(LoginAnswer)
    /\ WF_vars(MethodAnswer)

----------------------------------------------------------------------------
(* Properties *)

\* The state of one invocation of pcloudCall.
Local(p) ==
    <<pc[p], method[p], params[p], auth[p], firstTry[p], data[p], err[p],
      nSent[p], relogins[p]>>

\* This step is p's handling of the answer to its method request.
Answered(p) == pc[p] = "methodReq" /\ Local(p)' # Local(p)

\* This step is p's handling of the answer to its login request.
LoginAnswered(p) == pc[p] = "loginReq" /\ Local(p)' # Local(p)

\* This step starts a new invocation of pcloudCall by p.
CallStarts(p) == pc[p] \in {"idle", "done", "failed"} /\ Local(p)' # Local(p)

AuthCode(d) == d.kind = "body" /\ d.result \in {1000, 2000}

\* C1 as written: once the first request of an invocation was answered with
\* 1000 or 2000, the invocation ends having issued the method request exactly
\* twice and having logged in again exactly once.
C1_RetryAlwaysFollows ==
    \A p \in Procs :
        (~firstTry[p] /\ pc[p] \in {"done", "failed"}) =>
            (nSent[p] = 2 /\ relogins[p] = 1)

C1_StateBounds ==
    \A p \in Procs :
        /\ nSent[p] <= 2
        /\ relogins[p] <= 1
        /\ firstTry[p] => (relogins[p] = 0 /\ nSent[p] <= 1)
        /\ ~firstTry[p] => (relogins[p] = 1 /\ nSent[p] >= 1)
        /\ (~firstTry[p] /\ pc[p] = "done") => nSent[p] = 2
        /\ (~firstTry[p] /\ pc[p] = "failed") =>
              IF err[p] \in {"login", "transport"} THEN nSent[p] = 1 ELSE nSent[p] = 2
        /\ (nSent[p] = 2 /\ pc[p] # "methodReq" /\ AuthCode(data[p])) =>
              (pc[p] = "failed" /\ err[p] = "api")

C1_RetryStep ==
    \A p \in Procs :
        /\ (firstTry[p] /\ ~firstTry'[p]) =>
              /\ Answered(p) /\ AuthCode(data'[p])
              /\ cachedAuth' = NULL
              /\ relogins'[p] = 1
        /\ ~firstTry'[p] => (method'[p] = method[p] /\ params'[p] = params[p])
        /\ (Answered(p) /\ firstTry[p] /\ AuthCode(data'[p])) => ~firstTry'[p]
        /\ nSent'[p] > nSent[p] => pc'[p] = "methodReq"

\* C1 (amended): an invocation issues at most two method requests and logs in
\* again at most once.  A 1000/2000 answer to the first request clears the
\* cached token and calls the login once; the same method and params are
\* requested once more if that login yields a token, and the invocation fails
\* without a second request if the login fails.  A 1000/2000 answer to the
\* second request fails the invocation: no second re-login, no third request.
C1_RetryOnce == []C1_StateBounds /\ [][C1_RetryStep]_vars

C1_Witness ==
    \E p \in Procs :
        /\ pc[p] = "failed" /\ err[p] = "api"
        /\ ~firstTry[p] /\ nSent[p] = 2 /\ AuthCode(data[p])

\* C2: at most one login request (userinfo with getauth) is in flight.
C2_SingleLoginInFlight ==
    Cardinality({p \in Procs : pc[p] = "loginReq"}) <= 1

\* C3: with a static token configured, the cached token equals the static
\* token after every login, also after the forced re-login that precedes
\* the retried request.
C3_StaticTokenCached ==
    STATIC_AUTH # NULL =>
        \A p \in Procs :
            (pc[p] = "methodReq" /\ ~firstTry[p]) => cachedAuth = STATIC_AUTH

\* C4: a non-zero result other than 1000 and 2000 fails the invocation at
\* once: no further request, no login, no retry, cached token unchanged.
C4_OtherErrorStep ==
    \A p \in Procs :
        (Answered(p) /\ data'[p].kind = "body" /\ data'[p].result \notin {0, 1000, 2000}) =>
            /\ pc'[p] = "failed" /\ err'[p] = "api"
            /\ nSent'[p] = nSent[p]
            /\ nSent[p] = (IF firstTry[p] THEN 1 ELSE 2)
            /\ relogins'[p] = relogins[p]
            /\ firstTry'[p] = firstTry[p]
            /\ cachedAuth' = cachedAuth
            /\ isLoggingIn' = isLoggingIn
            /\ \A q \in Procs : pc'[q] = "loginReq" => pc[q] = "loginReq"

C4_OtherErrorFailsAtOnce == [][C4_OtherErrorStep]_vars

C4_Witness ==
    \E p \in Procs :
        /\ pc[p] = "failed" /\ err[p] = "api"
        /\ data[p].kind = "body" /\ data[p].result = 2005
        /\ firstTry[p] /\ nSent[p] = 1 /\ cachedAuth # NULL

\* C5: a transport failure of a method request (first or retried attempt)
\* fails the invocation with no further request and the cached token unchanged.
C5_TransportStep ==
    \A p \in Procs :
        (Answered(p) /\ data'[p].kind = "netfail") =>
            /\ pc'[p] = "failed" /\ err'[p] = "network"
            /\ nSent'[p] = nSent[p]
            /\ relogins'[p] = relogins[p]
            /\ firstTry'[p] = firstTry[p]
            /\ cachedAuth' = cachedAuth
            /\ isLoggingIn' = isLoggingIn
            /\ \A q \in Procs : pc'[q] = "loginReq" => pc[q] = "loginReq"

C5_TransportFailureNotRetried == [][C5_TransportStep]_vars

C5_Witness ==
    \E p \in Procs :
        /\ pc[p] = "failed" /\ err[p] = "network"
        /\ ~firstTry[p] /\ nSent[p] = 2 /\ cachedAuth # NULL

\* C6: with neither a static token nor a complete username/password pair,
\* every login fails before any request is issued; the cached token stays
\* null and no login is marked in progress.
C6_NoConfigNoRequest ==
    (STATIC_AUTH = NULL /\ (PCLOUD_USERNAME = NULL \/ PCLOUD_PASSWORD = NULL)) =>
        /\ cachedAuth = NULL
        /\ ~isLoggingIn
        /\ \A p \in Procs :
              /\ pc[p] \in {"idle", "failed"}
              /\ nSent[p] = 0
              /\ pc[p] = "failed" => err[p] = "config"

C6_Witness ==
    /\ STATIC_AUTH = NULL
    /\ PCLOUD_USERNAME # NULL /\ PCLOUD_PASSWORD = NULL
    /\ \E p \in Procs : pc[p] = "failed" /\ err[p] = "config"

\* C7: a credential login caches a token exactly when the login response has
\* result 0 and carries a token; otherwise the login fails and leaves the
\* cached token as it was.
C7_LoginStep ==
    \A p \in Procs :
        LoginAnswered(p) =>
            LET d == data'[p] IN
            IF d.kind = "body" /\ d.result = 0 /\ d.auth # NULL
            THEN /\ cachedAuth' = d.auth
                 /\ pc'[p] = "methodReq" /\ auth'[p] = d.auth
            ELSE /\ cachedAuth' = cachedAuth
                 /\ pc'[p] = "failed" /\ err'[p] \in {"login", "transport"}

C7_LoginCachesIffAccepted == [][C7_LoginStep]_vars

C7_Witness ==
    \E p \in Procs :
        /\ pc[p] = "methodReq" /\ data[p].kind = "body"
        /\ data[p].result = 0 /\ data[p].auth # NULL
        /\ cachedAuth = data[p].auth /\ auth[p] = cachedAuth

\* C8: the cached token changes only when a login succeeds (set to the token
\* of the response) or when the first attempt of an invocation is answered
\* with 1000/2000 (cleared).
C8_CacheStep ==
    cachedAuth' # cachedAuth =>
        \E p \in Procs :
            \/ /\ LoginAnswered(p)
               /\ data'[p].kind = "body" /\ data'[p].result = 0 /\ data'[p].auth # NULL
               /\ cachedAuth' = data'[p].auth
            \/ /\ Answered(p) /\ firstTry[p] /\ AuthCode(data'[p])
               /\ cachedAuth' = NULL

C8_CacheChangesOnlyByLoginOrInvalidate == [][C8_CacheStep]_vars

C8_Witness ==
    /\ stage = "share" /\ cachedAuth = NULL
    /\ pc[Workflow] = "loginReq" /\ ~firstTry[Workflow]

\* C9: getAuthToken returns the cached token without any login when the
\* cached token is non-null and performs the login otherwise; a login request
\* is issued only with the cached token null.
C9_TokenStep ==
    \A p \in Procs :
        /\ (CallStarts(p) /\ cachedAuth # NULL) =>
              /\ pc'[p] = "methodReq" /\ auth'[p] = cachedAuth
              /\ cachedAuth' = cachedAuth /\ isLoggingIn' = isLoggingIn
        /\ (CallStarts(p) /\ cachedAuth = NULL) =>
              \/ pc'[p] \in {"loginReq", "waitTimer"}
              \/ pc'[p] = "failed" /\ err'[p] = "config"
              \/ STATIC_AUTH # NULL /\ pc'[p] = "methodReq" /\ auth'[p] = STATIC_AUTH
        /\ (pc'[p] = "loginReq" /\ pc[p] # "loginReq") => cachedAuth' = NULL

C9_LoginOnlyWithoutToken == [][C9_TokenStep]_vars

C9_Witness ==
    \E p, q \in Procs :
        /\ p # q /\ STATIC_AUTH = NULL
        /\ pc[q] = "done" /\ pc[p] = "methodReq" /\ firstTry[p]
        /\ data[p] = NoResponse /\ auth[p] = cachedAuth

\* C10: the folders of one project are ensured one after the other in the
\* order root, project, preview, final-render: the request for a path is
\* issued only after the request for every earlier path, and for its parent
\* path, returned success.
Parent(path) == SubSeq(path, 1, Len(path) - 1)
Position(path) ==
    IF \E i \in 1..Len(created) : created[i] = path
    THEN CHOOSE i \in 1..Len(created) : created[i] = path
    ELSE 0
Succeeded(path) == Position(path) > 0
ClaimedOrder(name) ==
    <<rootPath, projectPath(name), previewPath(name), finalRenderPath(name)>>

C10_FoldersInOrder ==
    (stage = "folders" /\ pc[Workflow] # "failed") =>
        LET path == params[Workflow].path
            order == ClaimedOrder(projectName) IN
        /\ method[Workflow] = "createfolderifnotexists"
        /\ \A i \in 1..Len(created) : created[i] # path
        /\ Len(path) > 1 => Succeeded(Parent(path))
        /\ \A i, j \in 1..Len(order) :
              (i < j /\ (order[j] = path \/ Succeeded(order[j]))) =>
                  /\ Succeeded(order[i])
                  /\ Succeeded(order[j]) => Position(order[i]) < Position(order[j])
        /\ \A i \in 1..Len(created) :
              Len(created[i]) > 1 => 
                  /\ Succeeded(Parent(created[i]))
                  /\ Position(Parent(created[i])) < i

C10_Witness ==
    /\ stage = "folders" /\ pc[Workflow] = "methodReq"
    /\ params[Workflow].path = finalRenderPath(projectName)
    /\ Len(created) = 4

----------------------------------------------------------------------------
(* createProjectFolders and handleWebhookEvent *)

CreateCall(path) == Call("createfolderifnotexists", [path |-> path])
CreateCalls(name, n) == [i \in 1..n |-> CreateCall(FolderSequence(name)[i])]
WorkflowStill == flowVars' = flowVars /\ pc'[Workflow] = pc[Workflow]

\* C11: what a run that was aborted has done: it asked for the paths up to
\* the failing one and for nothing else, and its caller holds the error.
C11_Aborted ==
    /\ pc[Workflow] = "failed"
    /\ err[Workflow] # "none"
    /\ method[Workflow] = "createfolderifnotexists"
    /\ fi \in 1..Len(FolderSequence(projectName))
    /\ created = SubSeq(FolderSequence(projectName), 1, fi - 1)
    /\ calls = CreateCalls(projectName, fi)
    /\ attempts = <<>>

\* C11: when the creation of a folder path fails, createProjectFolders
\* aborts at that path: the failed creation is followed by the abort and by
\* no request, the aborted run has issued createfolderifnotexists for the
\* paths up to the failing one only, no lookup and no share, the error is
\* the caller's, and an aborted run issues nothing more.
C11_FolderFailureAborts ==
    [][/\ (stage = "folders" /\ pc[Workflow] = "failed") =>
              (WorkflowStill \/ (stage' = "aborted" /\ calls' = calls
                                   /\ pc'[Workflow] = "failed"))
       /\ stage' = "aborted" => C11_Aborted'
       /\ stage = "aborted" =>
              (WorkflowStill \/ (stage' = "folders" /\ Len(calls') = 1))]_vars

C11_Witness ==
    /\ stage = "aborted"
    /\ fi = 3
    /\ Len(emails) = 2
    /\ err[Workflow] = "api"

\* C13: the share loop attempts every recipient exactly once, in list
\* order, whatever attempts fail: while it runs the attempts made are the
\* first ei recipients, a settled attempt (failed or not) is followed by the
\* next recipient or by the normal return, never by an abort, and the run
\* that returns has attempted exactly the list.
C13_AllRecipientsAttempted ==
    [][/\ stage' \in {"lookup", "share"} =>
              /\ ei' \in 1..Len(emails')
              /\ attempts' = SubSeq(emails', 1, ei')
       /\ stage' = "finished" => attempts' = emails'
       /\ stage \in {"lookup", "share"} =>
              /\ stage' \in {"lookup", "share", "finished"}
              /\ ei' \in {ei, ei + 1}
              /\ stage' = "finished" => ei = Len(emails)]_vars

C13_Witness ==
    /\ stage = "finished"
    /\ Len(emails) = 2
    /\ attempts = emails
    /\ failedShares = <<emails[1]>>

C13_WitnessAllFail ==
    /\ stage = "finished"
    /\ Len(emails) = 2
    /\ failedShares = emails

AlphaRecord == TrackerBody("ok", "Alpha", <<"a@x.com", "">>)
AlphaDone == hpc = "folders" /\ stage = "finished" /\ wsProjectResponse = AlphaRecord
CreatedPaths == SelectSeq(calls, LAMBDA c : c.method = "createfolderifnotexists")
SharedMails == SelectSeq(calls, LAMBDA c : c.method = "sharefolder")
Lookups == SelectSeq(calls, LAMBDA c : c.method = "listfolder")
PathsOf(cs) == [i \in 1..Len(cs) |-> cs[i].params.path]
FourPaths ==
    << <<"WorksectionProjects">>,
       <<"WorksectionProjects", "Alpha">>,
       <<"WorksectionProjects", "Alpha", "Preview", dateStr>>,
       <<"WorksectionProjects", "Alpha", "Final_render">> >>
FivePaths ==
    << <<"WorksectionProjects">>,
       <<"WorksectionProjects", "Alpha">>,
       <<"WorksectionProjects", "Alpha", "Preview">>,
       <<"WorksectionProjects", "Alpha", "Preview", dateStr>>,
       <<"WorksectionProjects", "Alpha", "Final_render">> >>
OneShareForA ==
    /\ emails = <<"a@x.com">>
    /\ attempts = <<"a@x.com">>
    /\ Len(Lookups) = 1
    /\ Len(SharedMails) <= 1
    /\ \A i \in 1..Len(SharedMails) : SharedMails[i].params.mail = "a@x.com"

IssuesShareRequest ==
    /\ Len(calls') > Len(calls)
    /\ calls'[Len(calls')].method \in {"listfolder", "sharefolder"}

\* C14: no listfolder and no sharefolder request of a project is issued
\* before every folder creation of that project has returned success: a
\* path counts as created only when its request was answered with result 0,
\* and each lookup or share call is issued when all paths of the sequence
\* are created, after the createfolderifnotexists calls for all of them.
C14_ShareAfterFolders ==
    [][/\ created' # created /\ created' # <<>> =>
              /\ pc[Workflow] = "done"
              /\ method[Workflow] = "createfolderifnotexists"
              /\ data[Workflow].kind = "body" /\ data[Workflow].result = 0
              /\ created' = Append(created, params[Workflow].path)
       /\ IssuesShareRequest =>
              /\ created' = FolderSequence(projectName')
              /\ Len(calls') > Len(FolderSequence(projectName'))
              /\ SubSeq(calls', 1, Len(FolderSequence(projectName'))) =
                     CreateCalls(projectName', Len(FolderSequence(projectName')))]_vars

C14_Witness ==
    /\ stage = "lookup"
    /\ pc[Workflow] = "methodReq"
    /\ method[Workflow] = "listfolder"
    /\ created = FolderSequence(projectName)
    /\ relogins[Workflow] = 0

IssuesSharefolder ==
    /\ Len(calls') > Len(calls)
    /\ calls'[Len(calls')].method = "sharefolder"

\* C15: a sharefolder request is issued only when the listfolder lookup on
\* the project path, made for the same recipient, has returned success with
\* a folder identifier; the request carries that identifier, the email of
\* that recipient and permissions 7. A lookup that failed or returned no
\* identifier is followed by no sharefolder request for that recipient.
C15_ShareByLookedUpId ==
    [][/\ IssuesSharefolder =>
              /\ stage = "lookup"
              /\ pc[Workflow] = "done"
              /\ method[Workflow] = "listfolder"
              /\ params[Workflow] = [path |-> projectPath(projectName)]
              /\ data[Workflow].kind = "body" /\ data[Workflow].result = 0
              /\ data[Workflow].folderid \in FolderIds
              /\ ei' = ei
              /\ attempts[Len(attempts)] = emails[ei]
              /\ method'[Workflow] = "sharefolder"
              /\ params'[Workflow] = [folderid |-> data[Workflow].folderid,
                                      mail |-> emails[ei], permissions |-> 7]
              /\ calls'[Len(calls')].params = params'[Workflow]
       /\ method'[Workflow] = "sharefolder" /\ method[Workflow] # "sharefolder" =>
              IssuesSharefolder]_vars

C15_Witness ==
    /\ stage = "share"
    /\ ei = 2
    /\ pc[Workflow] = "methodReq"
    /\ params[Workflow] = [folderid |-> 12, mail |-> "b@x.com", permissions |-> 7]

\* A lookup without a folder identifier has been passed over.
C15_WitnessNoId ==
    /\ stage = "finished"
    /\ Len(emails) = 1
    /\ failedShares = emails
    /\ method[Workflow] = "listfolder"
    /\ pc[Workflow] = "done"

HandlingEvent == hpc \in {"settled", "fetchReq", "folders"} /\ evi \in 1..Len(events)
HandlingOther ==
    /\ HandlingEvent
    /\ ~(events[evi].action = "post" /\ events[evi].type = "project")
NoRemoteCall ==
    /\ hpc # "fetchReq"
    /\ wsProjectResponse = NotFetched
    /\ pc[Workflow] = "idle"
    /\ nSent[Workflow] = 0
    /\ stage = "none"
    /\ calls = <<>>

\* C16: an event that is not (action post, object type project) is a no-op:
\* from the step that starts it to the step that leaves it no tracker
\* request, no login and no folder, lookup or share request is issued, the
\* session state (cached token, login flag) is not changed, and the event
\* settles without an error.
C16_OtherEventIsNoOp ==
    [][/\ HandlingOther' => (NoRemoteCall' /\ sessionVars' = sessionVars)
       /\ HandlingOther =>
              /\ sessionVars' = sessionVars
              /\ outcomes' = Append(outcomes, "skipped")]_vars

C16_Witness ==
    /\ HandlingOther
    /\ evi = 2
    /\ events = <<ProjectPosted, TaskUpdated>>
    /\ outcomes = <<"ok">>
    /\ env.PCLOUD_AUTH = NULL
    /\ cachedAuth # NULL

HandlingProject ==
    /\ HandlingEvent
    /\ events[evi].action = "post" /\ events[evi].type = "project"
FetchFailed ==
    /\ HandlingProject
    /\ \/ wsEnv.WS_BASE_URL = NULL
       \/ wsEnv.WS_ADMIN_TOKEN = <<>>
       \/ wsProjectResponse.kind = "netfail"
       \/ wsProjectResponse.kind = "body" /\ wsProjectResponse.status # "ok"
NoStorageCall ==
    /\ pc[Workflow] = "idle"
    /\ nSent[Workflow] = 0
    /\ stage = "none"
    /\ calls = <<>>

\* C17: when the tracker fetch of a project-creation event fails (missing
\* configuration, transport failure, a response whose status is not ok),
\* the event fails and no folder-creation, lookup, share or login request
\* is issued for it: the storage is not called and the session state is
\* not changed from the failure to the end of the event.
C17_FetchFailureStopsEvent ==
    [][/\ FetchFailed' =>
              /\ hpc' = "settled" /\ pending' = "failed"
              /\ NoStorageCall'
              /\ sessionVars' = sessionVars
       /\ FetchFailed =>
              /\ outcomes' = Append(outcomes, "failed")
              /\ sessionVars' = sessionVars]_vars

C17_Witness ==
    /\ FetchFailed
    /\ wsProjectResponse = TrackerBody("error", "", <<>>)
    /\ evi = 1

C17_WitnessTransport == FetchFailed /\ wsProjectResponse = TrackerFail
C17_WitnessConfig == FetchFailed /\ wsEnv.WS_ADMIN_TOKEN = <<>> /\ wsProjectResponse = NotFetched

FolderFailed ==
    /\ HandlingProject
    /\ ~FetchFailed
    /\ method[Workflow] = "createfolderifnotexists"
    /\ pc[Workflow] = "failed"
EventSettles == Len(outcomes') = Len(outcomes) + 1

\* C18: the handling of one event fails exactly when the tracker fetch or
\* a folder creation failed: the event that settles is recorded as failed
\* if and only if one of the two happened, so failed lookups and failed
\* share requests, for any recipients, leave the event successful.
C18_EventFailsIffFetchOrFolder ==
    [][EventSettles =>
          /\ outcomes'[Len(outcomes')] = "failed" <=> (FetchFailed \/ FolderFailed)
          /\ (HandlingProject /\ ~FetchFailed /\ ~FolderFailed) =>
                 outcomes'[Len(outcomes')] = "ok"]_vars

C18_Witness ==
    /\ HandlingProject
    /\ evi = 2
    /\ outcomes = <<"failed">>
    /\ stage = "finished"
    /\ Len(emails) = 2
    /\ failedShares = emails

C18_WitnessFolder ==
    /\ FolderFailed
    /\ fi = 5
    /\ stage = "aborted"

StorageInFlight == pc[Workflow] \in {"loginReq", "methodReq"}
InFlight == hpc = "fetchReq" \/ StorageInFlight
Delivered == hpc \in {"none", "completed", "unauthorized"} /\ HandlingEvent'

\* C19: the events of one delivery are processed one after the other in
\* array order: a remote call in flight belongs to the event at index evi,
\* all events before it have finished (succeeded, failed or skipped) and no
\* other remote call is in flight; the loop goes from an event to the next
\* index only when no call of the event is in flight, and starts at the
\* first event.
C19_EventsSequential ==
    [][/\ InFlight' =>
              /\ HandlingEvent'
              /\ Len(outcomes') = evi' - 1
              /\ ~(hpc' = "fetchReq" /\ StorageInFlight')
       /\ EventSettles =>
              /\ HandlingEvent
              /\ ~InFlight
              /\ Len(outcomes) = evi - 1
              /\ evi' = evi + 1
              /\ events' = events
       /\ Delivered => (evi' = 1 /\ outcomes' = <<>>)
       /\ evi' # evi => (EventSettles \/ hpc \in {"none", "completed", "unauthorized"})]_vars

C19_Witness ==
    /\ events = <<ProjectPosted, ProjectPosted>>
    /\ evi = 2
    /\ outcomes = <<"ok">>
    /\ hpc = "folders"
    /\ pc[Workflow] = "methodReq"
    /\ method[Workflow] = "sharefolder"

Processing ==
    \/ hpc # "none"
    \/ InFlight
    \/ nSent[Workflow] > 0
    \/ calls # <<>>
    \/ wsProjectResponse # NotFetched
    \/ outcomes # <<>>

\* C20: the webhook request is answered with 200 OK before any remote call
\* for its events is issued, and this answer is the same whatever happens
\* later: from the arrival of the request on, through every fetch, login,
\* folder creation and share and every failure of them, the response sent
\* is 200 OK.
C20_AcknowledgedFirst == Processing => res = [status |-> 200, body |-> "OK"]

C20_Witness ==
    /\ hpc = "completed"
    /\ events = <<ProjectPosted, ProjectPosted>>
    /\ outcomes = <<"failed", "failed">>
    /\ res = [status |-> 200, body |-> "OK"]

----------------------------------------------------------------------------
(* The signed tracker query *)

SameProperties(a, b) ==
    /\ Len(a) = Len(b)
    /\ {a[i] : i \in 1..Len(a)} = {b[i] : i \in 1..Len(b)}
Reordered(a, b) == SameProperties(a, b) /\ a # b
SameSecret == apiKey = signedBefore.apiKey

\* C21: the hash of the tracker query is a function of the ordered
\* parameters and of the secret: two calls with the same parameters in the
\* same order and the same secret get the same hash, and two calls with the
\* same parameters in different orders and the same secret get different
\* hashes.
C21_HashOrderSensitive ==
    (signedBefore # NoQuery /\ SameSecret) =>
        /\ paramsObj = signedBefore.paramsObj => hash = signedBefore.hash
        /\ Reordered(paramsObj, signedBefore.paramsObj) => hash # signedBefore.hash

C21_Witness ==
    /\ SameSecret
    /\ signedBefore.paramsObj = FetchParams(<<"4", "&">>)
    /\ paramsObj = <<Pair(ExtraName, Users), Pair(IdProjectName, <<"4", "&">>),
                     Pair(ActionName, GetProject)>>
    /\ hash # signedBefore.hash

C21_WitnessSame ==
    /\ SameSecret
    /\ paramsObj = FetchParams(<<"4">>)
    /\ signedBefore.paramsObj = paramsObj
    /\ hash = signedBefore.hash

NamesOf(po) == [i \in 1..Len(po) |-> po[i].name]
\* action=get_project&id_project=42&extra=users
SignedString42 ==
    ActionName \o <<"=">> \o GetProject \o <<"&">> \o
    IdProjectName \o <<"=", "4", "2", "&">> \o
    ExtraName \o <<"=">> \o Users

\* C22: in the tracker request the parameters sent are the signed
\* parameters action, id_project, extra, in the order in which they were
\* hashed, and then hash, last; the string that was hashed is the
\* serialisation of the first three and holds no hash parameter.
C22_HashAppendedLast ==
    hpc = "fetchReq" =>
        /\ events[evi].id = 42
        /\ NamesOf(finalParams) = <<ActionName, IdProjectName, ExtraName, HashName>>
        /\ SubSeq(finalParams, 1, 3) = paramsObj
        /\ paramsObj = <<Pair(ActionName, GetProject), Pair(IdProjectName, <<"4", "2">>),
                         Pair(ExtraName, Users)>>
        /\ queryString = SignedString42
        /\ hash = md5(SignedString42 \o wsEnv.WS_ADMIN_TOKEN)
        /\ finalParams[4].value = hash

C22_Witness ==
    /\ hpc = "fetchReq"
    /\ evi = 2
    /\ outcomes = <<"skipped">>
    /\ finalParams[4] = Pair(HashName, md5(SignedString42 \o <<"k">>))

RecordUsers == wsProjectResponse.users
UsableEmails == SelectSeq(RecordUsers, LAMBDA e : e \notin {""})

\* C23: the recipients of an event are the non-empty user emails of the
\* tracker record, in record order: the share attempts made so far are the
\* first of them in that order, one lookup each, every sharefolder request
\* is for one of them, a completed event has attempted all of them, and a
\* record without a usable email leads to no lookup and no share request.
C23_RecipientsAreUsableEmails ==
    hpc = "folders" =>
        /\ emails = UsableEmails
        /\ Len(attempts) <= Len(UsableEmails)
        /\ attempts = SubSeq(UsableEmails, 1, Len(attempts))
        /\ Len(Lookups) = Len(attempts)
        /\ \A i \in 1..Len(SharedMails) :
               /\ SharedMails[i].params.mail # ""
               /\ \E k \in 1..Len(attempts) : SharedMails[i].params.mail = attempts[k]
        /\ stage = "finished" => attempts = UsableEmails
        /\ UsableEmails = <<>> => (Lookups = <<>> /\ SharedMails = <<>>)

C23_Witness ==
    /\ hpc = "folders"
    /\ stage = "finished"
    /\ RecordUsers = <<"", "b@x.com">>
    /\ attempts = <<"b@x.com">>
    /\ Len(SharedMails) = 1

C23_WitnessNone ==
    /\ hpc = "folders"
    /\ stage = "finished"
    /\ RecordUsers = <<"">>
    /\ Len(calls) = Len(FolderSequence(projectName))

\* C24: the project name used for the folder paths is the name of the
\* tracker record when it is not empty, otherwise the title of the webhook
\* event when it is not empty, otherwise project_<id>; the paths asked for
\* are the paths of that name.
C24_ProjectNameFallback ==
    hpc = "folders" =>
        /\ wsProjectResponse.name # "" => projectName = wsProjectResponse.name
        /\ (wsProjectResponse.name = "" /\ events[evi].title # "") =>
               projectName = events[evi].title
        /\ (wsProjectResponse.name = "" /\ events[evi].title = "") =>
               projectName = "project_42"
        /\ \A i \in 2..Len(CreatedPaths) :
               SubSeq(CreatedPaths[i].params.path, 1, 2) =
                   <<"WorksectionProjects", projectName>>

C24_Witness ==
    /\ hpc = "folders"
    /\ stage = "finished"
    /\ projectName = "project_42"
    /\ created[2] = <<"WorksectionProjects", "project_42">>

C24_WitnessTitle ==
    /\ hpc = "folders"
    /\ wsProjectResponse.name = ""
    /\ projectName = "Beta"
    /\ Len(created) = 5

----------------------------------------------------------------------------
(* ensureFolder twice *)

SecondSettled == ensureRun = "second" /\ pc[Workflow] \in {"done", "failed"}

\* C25: ensureFolder is idempotent: when a call on a path has returned and
\* ensureFolder is called again on the same path, with a provider that
\* answers createfolderifnotexists on an existing path with success, the
\* second call does not fail, it returns the provider's success, and from
\* the return of the first call on the provider's folder set stays the same.
C25_EnsureFolderIdempotent ==
    (ensureRun = "second" /\ firstEnsure.ok) =>
        /\ firstEnsure.path \in folders
        /\ folders = firstEnsure.folders
        /\ params[Workflow].path = firstEnsure.path
        /\ pc[Workflow] # "failed"
        /\ pc[Workflow] = "done" => data[Workflow] = Body(0, NULL, NULL)

C25_Witness ==
    /\ SecondSettled
    /\ firstEnsure.ok
    /\ firstEnsure.path = projectPath("Alpha")
    /\ folders = StorePaths
    /\ pc[Workflow] = "done"
    /\ env.PCLOUD_AUTH = NULL

----------------------------------------------------------------------------
\* C26: with username/password login, a call whose cached token the provider
\* no longer accepts (it answers 1000 or 2000), whose re-login succeeds and
\* whose new token the provider accepts, returns success in the end; the
\* retried request carries the token of the re-login, not the stale one, and
\* the cached token is then the new token.
StaleCall(p) ==
    /\ pc[p] = "methodReq"
    /\ firstTry[p]
    /\ auth[p] # accepted

Retried(p) == pc[p] = "methodReq" /\ ~firstTry[p]

Recovered(p) ==
    /\ pc[p] = "done"
    /\ data[p].result = 0
    /\ relogins[p] = 1
    /\ cachedAuth # NULL
    /\ cachedAuth = accepted
    /\ cachedAuth # revoked

----------------------------------------------------------------------------
\* C27: under concurrent invocations, an invocation answered with 1000/2000
\* clears only the token it sent: a token that another invocation's login
\* cached meanwhile, different from the one its failing request carried, is
\* still cached after the step.
FreshTokenCached(p) ==
    /\ cachedAuth # NULL
    /\ cachedAuth # auth[p]

C27_ClearsOnlyOwnToken ==
    [][\A p \in Callers :
          (Answered(p) /\ FreshTokenCached(p)) => cachedAuth' = cachedAuth]_vars

----------------------------------------------------------------------------
\* C28 as stated: after a credential login fails (rejection, missing token
\* or transport failure; first login or re-login), the login-in-progress
\* flag is false and the cached token is null.
LoginFailed(p) == LoginAnswered(p) /\ pc'[p] = "failed"

Alone(p) == \A q \in Callers \ {p} : pc[q] = "idle"

Called(p) == pc[p] \in {"idle", "done", "failed"} /\ Local(p)' # Local(p)

----------------------------------------------------------------------------
\* C29: with a static token configured no login request is ever issued,
\* whatever the provider answers, every request carries the static token,
\* and after a 1000/2000 answer the retried request carries the same static
\* token as the failed one.
NoLoginRequest == \A p \in Callers : pc[p] \notin {"loginReq", "waitTimer"}

StaticRetry(p) ==
    (Answered(p) /\ Outcome(firstTry[p], data'[p]) = "relogin") =>
        /\ pc'[p] = "methodReq"
        /\ auth'[p] = auth[p]
        /\ auth'[p] = STATIC_AUTH
        /\ nSent'[p] = 2

C29_StaticTokenNeverLogsIn ==
    /\ [](STATIC_AUTH # NULL => NoLoginRequest)
    /\ [](STATIC_AUTH # NULL =>
            \A p \in Callers : pc[p] = "methodReq" => auth[p] = STATIC_AUTH)
    /\ [][STATIC_AUTH # NULL => \A p \in Callers : StaticRetry(p)]_vars

C29_Witness ==
    /\ STATIC_AUTH # NULL
    /\ cachedAuth = NULL
    /\ \E p \in Callers :
          /\ pc[p] = "methodReq"
          /\ ~firstTry[p]
          /\ data[p].result \in {1000, 2000}
          /\ auth[p] = STATIC_AUTH

----------------------------------------------------------------------------
\* C30: within one delivery the failure of an event does not stop the
\* delivery: the loop goes from every settled event, failed or not, to the
\* next index, so the events are processed in array order and each one has
\* an outcome when the processing completes; and when every remote call is
\* answered in the end, the processing of a delivery runs to completion.
Completed == hpc = "completed" /\ Len(outcomes) = Len(events)

LoopGoesOn ==
    (HandlingEvent /\ evi' # evi) =>
        /\ evi' = evi + 1
        /\ Len(outcomes') = evi
        /\ (evi < Len(events) => HandlingEvent')
        /\ (evi = Len(events) => Completed')

C30_FailureDoesNotStopDelivery ==
    /\ [][LoopGoesOn]_vars
    /\ [](hpc = "completed" => Len(outcomes) = Len(events))
    /\ [](HandlingEvent => Len(outcomes) = evi - 1)
    /\ HandlingEvent ~> Completed

\* The first event failed and the second one was processed to success.
C30_Witness ==
    /\ Completed
    /\ Len(outcomes) = 2
    /\ outcomes[1] = "failed"
    /\ outcomes[2] = "ok"

====
